---- MODULE Spec2Model ----
(***************************************************************************)
(* Flashcard quiz engine: adaptive weighting (utils.get_weight), the       *)
(* persistent statistics merge (utils.merge_stats), the romaji -> kana     *)
(* transliteration (kana.convert_romaji_to_kana) and the three front ends  *)
(* that run a session over them (cli_romaji.quiz, cli_kana.quiz and the    *)
(* GUI QuizApplication of math.py).                                        *)
(*                                                                         *)
(* Conventions of the model:                                               *)
(*   - a Python str is a sequence of code points (ord / chr);              *)
(*   - a Python float is an exact rational [n, d] in lowest terms, d > 0;  *)
(*   - a dict is a function whose DOMAIN is its key set; a stat record     *)
(*     without the "extra" key has extra = "None".                         *)
(***************************************************************************)
EXTENDS Integers, Sequences, FiniteSets, TLC

VARIABLES
    frontend,          \* "romaji" (cli_romaji), "kana" (cli_kana) or "gui" (math.py)
    mode,              \* QuizApplication.mode: "romaji" or "kana"
    questions,         \* list of (prompt, answer) pairs from load_questions
    num_questions,     \* the configured count of the CLI loop
    persistent_stats,  \* the persistent store
    session_stats,     \* the session store
    weights,           \* the weight list computed at session start
    review_log,        \* the ordered review entries
    open_entries,      \* GUI: the open question windows, per question index
    pc,                \* position of the program
    loaded_stats,      \* history: the persistent store as it was loaded
    draws,             \* history: the question indices drawn in this session
    answered,          \* number of answers resolved since the program started
    sessions,          \* number of main() runs started
    call               \* argument and result of the last direct function call

vars == <<frontend, mode, questions, num_questions, persistent_stats,
          session_stats, weights, review_log, open_entries, pc, loaded_stats,
          draws, answered, sessions, call>>

-----------------------------------------------------------------------------
(* Bounds of the model *)

MaxQuestions == 2      \* largest configured count of a CLI session
MaxSessions == 2       \* main() restarts itself; number of runs followed
MaxTotalDraws == 4     \* questions asked over all the runs of one process
MaxAnswers == 2        \* answers resolved in one GUI session
MaxAsked == 3          \* largest asked/correct/incorrect of a generated record
MaxMultiplier == 4     \* largest multiplier passed to get_weight directly
MaxRomajiLen == 3      \* longest string passed to convert_romaji_to_kana directly
MaxPromptLen == 5      \* longest string passed to hide_parenthesis_info directly

-----------------------------------------------------------------------------
(* Float arithmetic as exact rationals *)

Abs(x) == IF x < 0 THEN -x ELSE x

RECURSIVE GCD(_, _)
GCD(a, b) == IF b = 0 THEN a ELSE GCD(b, a % b)

Rat(n, d) ==
    LET g == GCD(Abs(n), Abs(d))
        s == IF d < 0 THEN -1 ELSE 1
    IN  [n |-> (s * n) \div g, d |-> (s * d) \div g]

RInt(i) == [n |-> i, d |-> 1]
RAdd(x, y) == Rat(x.n * y.d + y.n * x.d, x.d * y.d)
RSub(x, y) == Rat(x.n * y.d - y.n * x.d, x.d * y.d)
RMul(x, y) == Rat(x.n * y.n, x.d * y.d)
RDiv(x, y) == Rat(x.n * y.d, x.d * y.n)
RLt(x, y) == x.n * y.d < y.n * x.d
RLe(x, y) == x.n * y.d <= y.n * x.d

-----------------------------------------------------------------------------
(* Strings *)

IsSpace(c) == c \in {9, 10, 11, 12, 13, 28, 29, 30, 31, 32, 133, 160}

IsUpperChar(c) == c \in 65..90
IsLowerChar(c) == c \in 97..122

\* str.lower()
Lower(s) == [i \in 1..Len(s) |-> IF IsUpperChar(s[i]) THEN s[i] + 32 ELSE s[i]]

\* str.isupper(): at least one cased character and no lowercase one
IsUpper(s) ==
    /\ \E i \in 1..Len(s) : IsUpperChar(s[i])
    /\ \A i \in 1..Len(s) : ~IsLowerChar(s[i])

\* str.strip()
RECURSIVE LStrip(_)
LStrip(s) == IF s # <<>> /\ IsSpace(Head(s)) THEN LStrip(Tail(s)) ELSE s

RECURSIVE RStrip(_)
RStrip(s) ==
    IF s # <<>> /\ IsSpace(s[Len(s)]) THEN RStrip(SubSeq(s, 1, Len(s) - 1)) ELSE s

Strip(s) == RStrip(LStrip(s))

\* s.startswith(key, i) with i counted from 1
StartsWith(s, key, i) ==
    /\ i + Len(key) - 1 <= Len(s)
    /\ \A j \in 1..Len(key) : s[i + j - 1] = key[j]

\* the Python test `a in b` on strings
IsSubstring(a, b) == \E i \in 1..(Len(b) + 1) : StartsWith(b, a, i)

-----------------------------------------------------------------------------
(* utils.hide_parenthesis_info: re.sub(r'\s*\([^)]*\)', '', text) *)

RECURSIVE SkipSpaces(_, _)
SkipSpaces(text, i) ==
    IF i <= Len(text) /\ IsSpace(text[i]) THEN SkipSpaces(text, i + 1) ELSE i

RECURSIVE FindClose(_, _)
FindClose(text, i) ==
    IF i > Len(text) THEN 0
    ELSE IF text[i] = 41 THEN i
    ELSE FindClose(text, i + 1)

\* the pattern \s*\([^()]*\), which matches innermost groups only
RECURSIVE FindCloseInner(_, _)
FindCloseInner(text, i) ==
    IF i > Len(text) THEN 0
    ELSE IF text[i] = 41 THEN i
    ELSE IF text[i] = 40 THEN 0
    ELSE FindCloseInner(text, i + 1)

MatchEnd_innermost(text, i) ==
    LET j == SkipSpaces(text, i)
    IN  IF j <= Len(text) /\ text[j] = 40 THEN FindCloseInner(text, j + 1) ELSE 0

\* index of the last character of the match starting at i, 0 if none
MatchEnd(text, i) ==
    LET j == SkipSpaces(text, i)
    IN  IF j <= Len(text) /\ text[j] = 40 THEN FindClose(text, j + 1) ELSE 0

RECURSIVE HideFrom(_, _)
HideFrom(text, i) ==
    IF i > Len(text) THEN <<>>
    ELSE LET e == MatchEnd(text, i)
         IN  IF e > 0 THEN HideFrom(text, e + 1)
             ELSE <<text[i]>> \o HideFrom(text, i + 1)

hide_parenthesis_info(text) == HideFrom(text, 1)

-----------------------------------------------------------------------------
(* kana.romaji_to_hiragana: <<romaji key, hiragana>> as code points *)

RomajiPairs ==
    {
      << <<107, 121, 97>>, <<12365, 12419>> >>,        \* kya
      << <<107, 121, 117>>, <<12365, 12421>> >>,       \* kyu
      << <<107, 121, 111>>, <<12365, 12423>> >>,       \* kyo
      << <<115, 104, 97>>, <<12375, 12419>> >>,        \* sha
      << <<115, 104, 117>>, <<12375, 12421>> >>,       \* shu
      << <<115, 104, 111>>, <<12375, 12423>> >>,       \* sho
      << <<99, 104, 97>>, <<12385, 12419>> >>,         \* cha
      << <<99, 104, 117>>, <<12385, 12421>> >>,        \* chu
      << <<99, 104, 111>>, <<12385, 12423>> >>,        \* cho
      << <<110, 121, 97>>, <<12395, 12419>> >>,        \* nya
      << <<110, 121, 117>>, <<12395, 12421>> >>,       \* nyu
      << <<110, 121, 111>>, <<12395, 12423>> >>,       \* nyo
      << <<104, 121, 97>>, <<12402, 12419>> >>,        \* hya
      << <<104, 121, 117>>, <<12402, 12421>> >>,       \* hyu
      << <<104, 121, 111>>, <<12402, 12423>> >>,       \* hyo
      << <<109, 121, 97>>, <<12415, 12419>> >>,        \* mya
      << <<109, 121, 117>>, <<12415, 12421>> >>,       \* myu
      << <<109, 121, 111>>, <<12415, 12423>> >>,       \* myo
      << <<114, 121, 97>>, <<12426, 12419>> >>,        \* rya
      << <<114, 121, 117>>, <<12426, 12421>> >>,       \* ryu
      << <<114, 121, 111>>, <<12426, 12423>> >>,       \* ryo
      << <<103, 121, 97>>, <<12366, 12419>> >>,        \* gya
      << <<103, 121, 117>>, <<12366, 12421>> >>,       \* gyu
      << <<103, 121, 111>>, <<12366, 12423>> >>,       \* gyo
      << <<106, 97>>, <<12376, 12419>> >>,             \* ja
      << <<106, 117>>, <<12376, 12421>> >>,            \* ju
      << <<106, 111>>, <<12376, 12423>> >>,            \* jo
      << <<98, 121, 97>>, <<12403, 12419>> >>,         \* bya
      << <<98, 121, 117>>, <<12403, 12421>> >>,        \* byu
      << <<98, 121, 111>>, <<12403, 12423>> >>,        \* byo
      << <<112, 121, 97>>, <<12404, 12419>> >>,        \* pya
      << <<112, 121, 117>>, <<12404, 12421>> >>,       \* pyu
      << <<112, 121, 111>>, <<12404, 12423>> >>,       \* pyo
      << <<116, 115, 117>>, <<12388>> >>,              \* tsu
      << <<115, 104, 105>>, <<12375>> >>,              \* shi
      << <<99, 104, 105>>, <<12385>> >>,               \* chi
      << <<102, 117>>, <<12405>> >>,                   \* fu
      << <<97>>, <<12354>> >>,                         \* a
      << <<105>>, <<12356>> >>,                        \* i
      << <<117>>, <<12358>> >>,                        \* u
      << <<101>>, <<12360>> >>,                        \* e
      << <<111>>, <<12362>> >>,                        \* o
      << <<107, 97>>, <<12363>> >>,                    \* ka
      << <<107, 105>>, <<12365>> >>,                   \* ki
      << <<107, 117>>, <<12367>> >>,                   \* ku
      << <<107, 101>>, <<12369>> >>,                   \* ke
      << <<107, 111>>, <<12371>> >>,                   \* ko
      << <<115, 97>>, <<12373>> >>,                    \* sa
      << <<115, 117>>, <<12377>> >>,                   \* su
      << <<115, 101>>, <<12379>> >>,                   \* se
      << <<115, 111>>, <<12381>> >>,                   \* so
      << <<116, 97>>, <<12383>> >>,                    \* ta
      << <<116, 101>>, <<12390>> >>,                   \* te
      << <<116, 111>>, <<12392>> >>,                   \* to
      << <<110, 97>>, <<12394>> >>,                    \* na
      << <<110, 105>>, <<12395>> >>,                   \* ni
      << <<110, 117>>, <<12396>> >>,                   \* nu
      << <<110, 101>>, <<12397>> >>,                   \* ne
      << <<110, 111>>, <<12398>> >>,                   \* no
      << <<104, 97>>, <<12399>> >>,                    \* ha
      << <<104, 105>>, <<12402>> >>,                   \* hi
      << <<104, 101>>, <<12408>> >>,                   \* he
      << <<104, 111>>, <<12411>> >>,                   \* ho
      << <<109, 97>>, <<12414>> >>,                    \* ma
      << <<109, 105>>, <<12415>> >>,                   \* mi
      << <<109, 117>>, <<12416>> >>,                   \* mu
      << <<109, 101>>, <<12417>> >>,                   \* me
      << <<109, 111>>, <<12418>> >>,                   \* mo
      << <<121, 97>>, <<12420>> >>,                    \* ya
      << <<121, 117>>, <<12422>> >>,                   \* yu
      << <<121, 111>>, <<12424>> >>,                   \* yo
      << <<114, 97>>, <<12425>> >>,                    \* ra
      << <<114, 105>>, <<12426>> >>,                   \* ri
      << <<114, 117>>, <<12427>> >>,                   \* ru
      << <<114, 101>>, <<12428>> >>,                   \* re
      << <<114, 111>>, <<12429>> >>,                   \* ro
      << <<119, 97>>, <<12431>> >>,                    \* wa
      << <<119, 105>>, <<12358, 12355>> >>,            \* wi
      << <<119, 101>>, <<12358, 12359>> >>,            \* we
      << <<119, 111>>, <<12434>> >>,                   \* wo
      << <<110>>, <<12435>> >>,                        \* n
      << <<103, 97>>, <<12364>> >>,                    \* ga
      << <<103, 105>>, <<12366>> >>,                   \* gi
      << <<103, 117>>, <<12368>> >>,                   \* gu
      << <<103, 101>>, <<12370>> >>,                   \* ge
      << <<103, 111>>, <<12372>> >>,                   \* go
      << <<122, 97>>, <<12374>> >>,                    \* za
      << <<106, 105>>, <<12376>> >>,                   \* ji
      << <<122, 117>>, <<12378>> >>,                   \* zu
      << <<122, 101>>, <<12380>> >>,                   \* ze
      << <<122, 111>>, <<12382>> >>,                   \* zo
      << <<100, 97>>, <<12384>> >>,                    \* da
      << <<100, 105>>, <<12386>> >>,                   \* di
      << <<100, 117>>, <<12389>> >>,                   \* du
      << <<100, 101>>, <<12391>> >>,                   \* de
      << <<100, 111>>, <<12393>> >>,                   \* do
      << <<98, 97>>, <<12400>> >>,                     \* ba
      << <<98, 105>>, <<12403>> >>,                    \* bi
      << <<98, 117>>, <<12406>> >>,                    \* bu
      << <<98, 101>>, <<12409>> >>,                    \* be
      << <<98, 111>>, <<12412>> >>,                    \* bo
      << <<112, 97>>, <<12401>> >>,                    \* pa
      << <<112, 105>>, <<12404>> >>,                   \* pi
      << <<112, 117>>, <<12407>> >>,                   \* pu
      << <<112, 101>>, <<12410>> >>,                   \* pe
      << <<112, 111>>, <<12413>> >>,                   \* po
      << <<102, 97>>, <<12405, 12353>> >>,             \* fa
      << <<102, 105>>, <<12405, 12355>> >>,            \* fi
      << <<102, 101>>, <<12405, 12359>> >>,            \* fe
      << <<102, 111>>, <<12405, 12361>> >> }           \* fo

romaji_to_hiragana ==
    [key \in {p[1] : p \in RomajiPairs} |->
        (CHOOSE p \in RomajiPairs : p[1] = key)[2]]

\* romaji_keys is the key list sorted longest first.  Keys of one length are
\* distinct, so the first key of the list that matches at i is the longest
\* slice of 3, 2 or 1 characters at i that is a key.
romaji_keys == DOMAIN romaji_to_hiragana

\* the key list sorted shortest first
MatchKey_shortest_first(processed, i) ==
    LET slice(len) == IF i + len - 1 <= Len(processed)
                      THEN SubSeq(processed, i, i + len - 1) ELSE <<>>
    IN  IF slice(1) \in romaji_keys THEN slice(1)
        ELSE IF slice(2) \in romaji_keys THEN slice(2)
        ELSE IF slice(3) \in romaji_keys THEN slice(3)
        ELSE <<>>

MatchKey(processed, i) ==
    LET slice(len) == IF i + len - 1 <= Len(processed)
                      THEN SubSeq(processed, i, i + len - 1) ELSE <<>>
    IN  IF slice(3) \in romaji_keys THEN slice(3)
        ELSE IF slice(2) \in romaji_keys THEN slice(2)
        ELSE IF slice(1) \in romaji_keys THEN slice(1)
        ELSE <<>>

RECURSIVE ScanFrom(_, _)
ScanFrom(processed, i) ==
    IF i > Len(processed) THEN <<>>
    ELSE IF /\ i + 1 <= Len(processed)
            /\ processed[i] = processed[i + 1]
            /\ processed[i] \notin {97, 101, 105, 111, 117, 110}
         THEN <<12387>> \o ScanFrom(processed, i + 1)
    ELSE LET key == MatchKey(processed, i)
         IN  IF key # <<>>
             THEN romaji_to_hiragana[key] \o ScanFrom(processed, i + Len(key))
             ELSE <<processed[i]>> \o ScanFrom(processed, i + 1)

\* the shift applied below U+3093 only
ToKatakana_below_n(result) ==
    [i \in 1..Len(result) |->
        IF 12353 <= result[i] /\ result[i] < 12435
        THEN result[i] + 96 ELSE result[i]]

ToKatakana(result) ==
    [i \in 1..Len(result) |->
        IF 12353 <= result[i] /\ result[i] <= 12435
        THEN result[i] + 96 ELSE result[i]]

convert_romaji_to_kana(romaji) ==
    LET to_katakana == IsUpper(romaji) /\ romaji # <<>>
        result == ScanFrom(Lower(romaji), 1)
    IN  IF to_katakana THEN ToKatakana(result) ELSE result

-----------------------------------------------------------------------------
(* utils.get_weight and utils.merge_stats *)

DEFAULT_MULTIPLIER == 4

NewPersistentStat ==
    [asked |-> 0, correct |-> 0, incorrect |-> 0, score |-> RInt(10),
     extra |-> "None"]

\* a session record that starts with score 0
NewSessionStat_score_zero ==
    [asked |-> 0, correct |-> 0, incorrect |-> 0, score |-> RInt(0)]

NewSessionStat ==
    [asked |-> 0, correct |-> 0, incorrect |-> 0, score |-> RInt(1)]

\* Variants of get_weight with one slip each: "le" tests score <= 1, "factor"
\* divides by asked instead of asked + 1, "score" overwrites the record's
\* score where the weight is forced to 0.
GetWeightVariant(question_key, stats_in, multiplier, slip) ==
    IF question_key \in DOMAIN stats_in /\ stats_in[question_key].asked > 0
    THEN LET stats == stats_in[question_key]
             asked == stats.asked
             correct == stats.correct
             accuracy == RDiv(RInt(correct), RInt(asked))
             factor == RAdd(RInt(1), RDiv(RInt(1),
                            RInt(IF slip = "factor" THEN asked ELSE asked + 1)))
             weight == RAdd(RInt(1),
                            RMul(RMul(RSub(RInt(1), accuracy), RInt(multiplier)),
                                 factor))
             study == IF slip = "le" THEN RLe(stats.score, RInt(1))
                      ELSE RLt(stats.score, RInt(1))
             known == RLt(RInt(200), stats.score)
         IN  [weight |-> IF study \/ known THEN RInt(0) ELSE weight,
              stats |-> [stats_in EXCEPT
                            ![question_key].extra =
                                IF known THEN "Known"
                                ELSE IF study THEN "Study" ELSE @,
                            ![question_key].score =
                                IF slip = "score" /\ (study \/ known)
                                THEN RInt(0) ELSE @]]
    ELSE [weight |-> RAdd(RInt(1), RMul(RInt(multiplier), RInt(2))),
          stats |-> stats_in]

get_weight_le_threshold(question_key, stats_in, multiplier) ==
    GetWeightVariant(question_key, stats_in, multiplier, "le")

get_weight_factor_asked(question_key, stats_in, multiplier) ==
    GetWeightVariant(question_key, stats_in, multiplier, "factor")

get_weight_writes_score(question_key, stats_in, multiplier) ==
    GetWeightVariant(question_key, stats_in, multiplier, "score")

\* The result is the returned weight together with the store after the call:
\* the function writes "extra" into the record it reads.
get_weight(question_key, stats_in, multiplier) ==
    IF question_key \in DOMAIN stats_in /\ stats_in[question_key].asked > 0
    THEN LET stats == stats_in[question_key]
             asked == stats.asked
             correct == stats.correct
             accuracy == RDiv(RInt(correct), RInt(asked))
             factor == RAdd(RInt(1), RDiv(RInt(1), RInt(asked + 1)))
             weight == RAdd(RInt(1),
                            RMul(RMul(RSub(RInt(1), accuracy), RInt(multiplier)),
                                 factor))
             study == RLt(stats.score, RInt(1))
             known == RLt(RInt(200), stats.score)
         IN  [weight |-> IF study \/ known THEN RInt(0) ELSE weight,
              stats |-> [stats_in EXCEPT ![question_key].extra =
                            IF known THEN "Known"
                            ELSE IF study THEN "Study" ELSE @]]
    ELSE [weight |-> RAdd(RInt(1), RMul(RInt(multiplier), RInt(2))),
          stats |-> stats_in]

\* merge_stats with the session score added instead of multiplied
merge_stats_adds_score(persistent, session) ==
    [key \in (DOMAIN persistent) \cup (DOMAIN session) |->
        IF key \in DOMAIN session
        THEN LET base == IF key \in DOMAIN persistent
                         THEN persistent[key] ELSE NewPersistentStat
                 data == session[key]
             IN  [asked |-> base.asked + data.asked,
                  correct |-> base.correct + data.correct,
                  incorrect |-> base.incorrect + data.incorrect,
                  score |-> RAdd(base.score, data.score),
                  extra |-> base.extra]
        ELSE persistent[key]]

\* merge_stats with the persistent score left as it was
merge_stats_keeps_score(persistent, session) ==
    [key \in (DOMAIN persistent) \cup (DOMAIN session) |->
        IF key \in DOMAIN session
        THEN LET base == IF key \in DOMAIN persistent
                         THEN persistent[key] ELSE NewPersistentStat
                 data == session[key]
             IN  [asked |-> base.asked + data.asked,
                  correct |-> base.correct + data.correct,
                  incorrect |-> base.incorrect + data.incorrect,
                  score |-> base.score,
                  extra |-> base.extra]
        ELSE persistent[key]]

merge_stats(persistent, session) ==
    [key \in (DOMAIN persistent) \cup (DOMAIN session) |->
        IF key \in DOMAIN session
        THEN LET base == IF key \in DOMAIN persistent
                         THEN persistent[key] ELSE NewPersistentStat
                 data == session[key]
             IN  [asked |-> base.asked + data.asked,
                  correct |-> base.correct + data.correct,
                  incorrect |-> base.incorrect + data.incorrect,
                  score |-> RMul(base.score, data.score),
                  extra |-> base.extra]
        ELSE persistent[key]]

-----------------------------------------------------------------------------
(* Session set-up shared by cli_romaji.quiz, cli_kana.quiz and              *)
(* QuizApplication.__init__                                                 *)

unique_visible(qs) == {hide_parenthesis_info(qs[i].prompt) : i \in 1..Len(qs)}

\* weights = [get_weight(hide_parenthesis_info(prompt), persistent_stats) ...]
\* evaluated in list order, each call on the store the previous one left.
RECURSIVE WeightsFrom(_, _, _)
WeightsFrom(qs, i, stats) ==
    IF i > Len(qs) THEN [weights |-> <<>>, stats |-> stats]
    ELSE LET r == get_weight(hide_parenthesis_info(qs[i].prompt), stats,
                             DEFAULT_MULTIPLIER)
             rest == WeightsFrom(qs, i + 1, r.stats)
         IN  [weights |-> <<r.weight>> \o rest.weights, stats |-> rest.stats]

-----------------------------------------------------------------------------
(* random.choices(questions, weights=weights, k=1)[0]: the cumulative      *)
(* weights, the ValueError on a total <= 0, and the bisection of           *)
(* random() * total over them.  The index returned depends only on the     *)
(* comparisons x < cum[mid], so one x per interval between consecutive     *)
(* break points of [0, total) stands for the whole interval.               *)

RECURSIVE CumWeights(_, _)
CumWeights(w, i) ==
    IF i = 0 THEN <<>>
    ELSE LET prev == CumWeights(w, i - 1)
         IN  Append(prev, IF i = 1 THEN w[1] ELSE RAdd(prev[i - 1], w[i]))

TotalWeight(w) == CumWeights(w, Len(w))[Len(w)]

ChoicesRaises(w) == RLe(TotalWeight(w), RInt(0))

\* bisect.bisect_right(a, x, lo, hi) with 0-based lo, hi
RECURSIVE Bisect(_, _, _, _)
Bisect(a, x, lo, hi) ==
    IF lo < hi
    THEN LET mid == (lo + hi) \div 2
         IN  IF RLt(x, a[mid + 1]) THEN Bisect(a, x, lo, mid)
             ELSE Bisect(a, x, mid + 1, hi)
    ELSE lo

\* a uniform draw that ignores the weights (random.choice)
choices_ignores_weights(w) == 1..Len(w)

\* the indices (from 1) that choices can return
choices(w) ==
    LET cum == CumWeights(w, Len(w))
        total == cum[Len(w)]
        points == {RInt(0)} \cup
                  {cum[i] : i \in {j \in 1..Len(w) :
                                     RLe(RInt(0), cum[j]) /\ RLt(cum[j], total)}}
    IN  {Bisect(cum, x, 0, Len(w) - 1) + 1 : x \in points}

-----------------------------------------------------------------------------
(* Inputs: question banks, stores on disk, what the user types *)

\* "ki (tree) : ki" and "kaki : kaki"
BankTwoKeys ==
    << [prompt |-> <<107, 105, 32, 40, 116, 114, 101, 101, 41>>,
        answer |-> <<107, 105>>],
       [prompt |-> <<107, 97, 107, 105>>, answer |-> <<107, 97, 107, 105>>] >>

\* "ki (tree) : ki" and "ki (mood) : ki": two questions, one visible key
BankSharedKey ==
    << [prompt |-> <<107, 105, 32, 40, 116, 114, 101, 101, 41>>,
        answer |-> <<107, 105>>],
       [prompt |-> <<107, 105, 32, 40, 109, 111, 111, 100, 41>>,
        answer |-> <<107, 105>>] >>

Banks == {BankTwoKeys, BankSharedKey}

\* "", "ki", "ka", "KAKI "
RawInputs == {<<>>, <<107, 105>>, <<107, 97>>, <<75, 65, 75, 73, 32>>}

Stat(asked, correct, incorrect, score, extra) ==
    [asked |-> asked, correct |-> correct, incorrect |-> incorrect,
     score |-> score, extra |-> extra]

\* records of a stats file written by earlier sessions
FileRecords ==
    { Stat(2, 1, 1, RInt(10), "None"),
      Stat(1, 0, 1, Rat(1, 2), "None"),
      Stat(3, 3, 0, RInt(250), "None") }

StoresOver(keys, records) == UNION {[K -> records] : K \in SUBSET keys}

-----------------------------------------------------------------------------
(* The state after main() / the __main__ block has loaded the question     *)
(* bank, the count and the persistent store                                *)

NoCall == [key |-> <<>>, multiplier |-> 0, ret |-> RInt(0)]

Init ==
    /\ frontend \in {"romaji", "kana", "gui"}
    /\ mode \in {"romaji", "kana"}
    /\ frontend \in {"romaji", "kana"} => mode = frontend
    /\ questions \in Banks
    /\ num_questions \in 0..MaxQuestions
    /\ frontend = "gui" => num_questions = 0
    /\ persistent_stats \in StoresOver(unique_visible(questions), FileRecords)
    /\ loaded_stats = persistent_stats
    /\ session_stats = <<>>
    /\ weights = <<>>
    /\ review_log = <<>>
    /\ open_entries = [i \in 1..Len(questions) |-> 0]
    /\ pc = "loaded"
    /\ draws = <<>>
    /\ answered = 0
    /\ sessions = 1
    /\ call = NoCall

-----------------------------------------------------------------------------
(* cli_romaji.py and cli_kana.py *)

Entry(q, user_answer, correct_answer, ok) ==
    [visible_prompt |-> hide_parenthesis_info(q.prompt),
     full_prompt |-> q.prompt,
     user_answer |-> user_answer,
     correct_answer |-> correct_answer,
     result |-> IF ok THEN "correct" ELSE "wrong"]

\* session_stats, review_log and weights of quiz(); the loop is skipped when
\* num_questions is 0
QuizStart(fe) ==
    /\ frontend = fe
    /\ pc = "loaded"
    /\ LET r == WeightsFrom(questions, 1, persistent_stats)
       IN  /\ weights' = r.weights
           /\ persistent_stats' = r.stats
    /\ session_stats' = [vis \in unique_visible(questions) |-> NewSessionStat]
    /\ review_log' = <<>>
    /\ draws' = <<>>
    /\ pc' = IF num_questions = 0 THEN "finished" ELSE "running"
    /\ UNCHANGED <<frontend, mode, questions, num_questions, open_entries,
                   loaded_stats, answered, sessions, call>>

\* random.choices raises ValueError: the traceback ends the program
QuizDrawRaises ==
    /\ ChoicesRaises(weights)
    /\ pc' = "aborted"
    /\ UNCHANGED <<frontend, mode, questions, num_questions, persistent_stats,
                   session_stats, weights, review_log, open_entries,
                   loaded_stats, draws, answered, sessions, call>>

\* one iteration of the loop of cli_romaji.quiz
romaji_quiz_question ==
    /\ frontend = "romaji"
    /\ pc = "running"
    /\ Len(draws) < num_questions
    /\ \/ QuizDrawRaises
       \/ /\ ~ChoicesRaises(weights)
          /\ \E idx \in choices(weights), raw \in RawInputs :
                LET q == questions[idx]
                    visible_prompt == hide_parenthesis_info(q.prompt)
                    user_input == Lower(Strip(raw))
                    ok == user_input # <<>> /\ user_input = q.answer
                IN  /\ session_stats' =
                          [session_stats EXCEPT ![visible_prompt] =
                              [asked |-> @.asked + 1,
                               correct |-> @.correct + (IF ok THEN 1 ELSE 0),
                               incorrect |-> @.incorrect + (IF ok THEN 0 ELSE 1),
                               score |-> RMul(@.score, IF ok THEN Rat(11, 10)
                                                       ELSE Rat(1, 2))]]
                    /\ review_log' =
                          Append(review_log, Entry(q, user_input, q.answer, ok))
                    /\ draws' = Append(draws, idx)
          /\ answered' = answered + 1
          /\ pc' = IF Len(draws') = num_questions THEN "finished" ELSE "running"
          /\ UNCHANGED <<frontend, mode, questions, num_questions,
                         persistent_stats, weights, open_entries, loaded_stats,
                         sessions, call>>

\* one iteration of the loop of cli_kana.quiz
kana_quiz_question ==
    /\ frontend = "kana"
    /\ pc = "running"
    /\ Len(draws) < num_questions
    /\ \/ QuizDrawRaises
       \/ /\ ~ChoicesRaises(weights)
          /\ \E idx \in choices(weights), raw \in RawInputs :
                LET q == questions[idx]
                    visible_prompt == hide_parenthesis_info(q.prompt)
                    correct_kana == convert_romaji_to_kana(q.answer)
                    user_kana == convert_romaji_to_kana(Strip(raw))
                    ok == user_kana # <<>> /\ IsSubstring(user_kana, correct_kana)
                IN  /\ session_stats' =
                          [session_stats EXCEPT ![visible_prompt] =
                              [asked |-> @.asked + 1,
                               correct |-> @.correct + (IF ok THEN 1 ELSE 0),
                               incorrect |-> @.incorrect + (IF ok THEN 0 ELSE 1),
                               score |-> IF ok THEN RAdd(@.score, RInt(1))
                                         ELSE RSub(@.score, RInt(1))]]
                    /\ review_log' =
                          Append(review_log, Entry(q, user_kana, correct_kana, ok))
                    /\ draws' = Append(draws, idx)
          /\ answered' = answered + 1
          /\ pc' = IF Len(draws') = num_questions THEN "finished" ELSE "running"
          /\ UNCHANGED <<frontend, mode, questions, num_questions,
                         persistent_stats, weights, open_entries, loaded_stats,
                         sessions, call>>

\* main(): merge_stats and save_persistent_stats after quiz() returned
MainMerge(fe) ==
    /\ frontend = fe
    /\ pc = "finished"
    /\ persistent_stats' = merge_stats(persistent_stats, session_stats)
    /\ pc' = "merged"
    /\ UNCHANGED <<frontend, mode, questions, num_questions, session_stats,
                   weights, review_log, open_entries, loaded_stats, draws,
                   answered, sessions, call>>

\* main() calls itself: the saved store is loaded again and a new count read
MainRestart(fe) ==
    /\ frontend = fe
    /\ pc = "merged"
    /\ sessions < MaxSessions
    /\ sessions' = sessions + 1
    /\ num_questions' \in 0..MaxQuestions
    /\ answered + num_questions' <= MaxTotalDraws
    /\ loaded_stats' = persistent_stats
    /\ session_stats' = <<>>
    /\ weights' = <<>>
    /\ review_log' = <<>>
    /\ draws' = <<>>
    /\ pc' = "loaded"
    /\ UNCHANGED <<frontend, mode, questions, persistent_stats, open_entries,
                   answered, call>>

romaji_quiz_start == QuizStart("romaji")
romaji_main_merge == MainMerge("romaji")
romaji_main_restart == MainRestart("romaji")
kana_quiz_start == QuizStart("kana")
kana_main_merge == MainMerge("kana")
kana_main_restart == MainRestart("kana")

-----------------------------------------------------------------------------
(* math.py: QuizApplication.  Its docstring names utils.py as the module   *)
(* of get_weight and merge_stats.  open_entries is kept as the number of   *)
(* open windows per question: the order of the list only drives the focus  *)
(* cycling.                                                                *)

FACTOR_FAIL == Rat(3, 4)
FACTOR_SUCCESS == Rat(3, 2)
SCHEDULE_ROUNDS == 10
MAX_OPEN_ENTRIES == 10

RECURSIVE SumTo(_, _)
SumTo(f, i) == IF i = 0 THEN 0 ELSE f[i] + SumTo(f, i - 1)

\* len(self.open_entries)
OpenCount(oe) == SumTo(oe, Len(oe))

Min(a, b) == IF a < b THEN a ELSE b

\* number of iterations of the loop of schedule_quiz that draw a question
ScheduleDraws(oe) ==
    IF OpenCount(oe) >= MAX_OPEN_ENTRIES THEN 0
    ELSE Min(SCHEDULE_ROUNDS, MAX_OPEN_ENTRIES - OpenCount(oe))

\* the draws of one schedule_quiz call, as the number of windows opened per
\* question
ScheduleBatches(oe) ==
    LET k == ScheduleDraws(oe)
        n == Len(questions)
        drawable == choices(weights)
    IN  IF k = 0 THEN {[i \in 1..n |-> 0]}
        ELSE {b \in [1..n -> 0..k] :
                /\ SumTo(b, n) = k
                /\ \A i \in 1..n : b[i] > 0 => i \in drawable}

AskedAfter(stats, b) ==
    [vis \in DOMAIN stats |->
        [stats[vis] EXCEPT !.asked =
            @ + SumTo([i \in 1..Len(questions) |->
                         IF hide_parenthesis_info(questions[i].prompt) = vis
                         THEN b[i] ELSE 0], Len(questions))]]

ScheduleRaises(oe) == ScheduleDraws(oe) > 0 /\ ChoicesRaises(weights)

\* QuizApplication.__init__
gui_init ==
    /\ frontend = "gui"
    /\ pc = "loaded"
    /\ session_stats' = [vis \in unique_visible(questions) |-> NewSessionStat]
    /\ LET r == WeightsFrom(questions, 1, persistent_stats)
       IN  /\ weights' = r.weights
           /\ persistent_stats' = r.stats
    /\ review_log' = <<>>
    /\ open_entries' = [i \in 1..Len(questions) |-> 0]
    /\ pc' = "constructed"
    /\ UNCHANGED <<frontend, mode, questions, num_questions, loaded_stats,
                   draws, answered, sessions, call>>

\* run(): the first schedule_quiz call; a ValueError leaves run()
gui_run ==
    /\ frontend = "gui"
    /\ pc = "constructed"
    /\ IF ScheduleRaises(open_entries)
       THEN /\ pc' = "aborted"
            /\ UNCHANGED <<session_stats, open_entries>>
       ELSE /\ pc' = "running"
            /\ \E b \in ScheduleBatches(open_entries) :
                  /\ session_stats' = AskedAfter(session_stats, b)
                  /\ open_entries' =
                        [i \in 1..Len(questions) |-> open_entries[i] + b[i]]
    /\ UNCHANGED <<frontend, mode, questions, num_questions, persistent_stats,
                   weights, review_log, loaded_stats, draws, answered,
                   sessions, call>>

\* schedule_quiz run by a timer of root.after
gui_schedule_quiz ==
    /\ frontend = "gui"
    /\ pc = "running"
    /\ \E b \in ScheduleBatches(open_entries) :
          /\ session_stats' = AskedAfter(session_stats, b)
          /\ open_entries' =
                [i \in 1..Len(questions) |-> open_entries[i] + b[i]]
    /\ UNCHANGED <<frontend, mode, questions, num_questions, persistent_stats,
                   weights, review_log, pc, loaded_stats, draws, answered,
                   sessions, call>>

\* <Return> in an open window: check_answer, the window's destruction and
\* the callback of schedule_quiz, which calls schedule_quiz again on a wrong
\* answer before it appends the review entry
gui_check_answer ==
    /\ frontend = "gui"
    /\ pc = "running"
    /\ answered < MaxAnswers
    /\ \E idx \in {i \in 1..Len(questions) : open_entries[i] > 0},
          raw \in RawInputs :
          LET q == questions[idx]
              user_ans == Lower(Strip(raw))
              user_ans_conv == IF mode = "kana"
                               THEN convert_romaji_to_kana(user_ans)
                               ELSE user_ans
              correct_ans_conv == IF mode = "kana"
                                  THEN convert_romaji_to_kana(q.answer)
                                  ELSE q.answer
              ok == user_ans_conv # <<>> /\ user_ans_conv = correct_ans_conv
              closed == [open_entries EXCEPT ![idx] = @ - 1]
              visible_prompt == hide_parenthesis_info(q.prompt)
              correct_kana == IF mode = "kana"
                              THEN convert_romaji_to_kana(q.answer)
                              ELSE q.answer
              resolved ==
                  [session_stats EXCEPT ![visible_prompt] =
                      [asked |-> @.asked,
                       correct |-> @.correct + (IF ok THEN 1 ELSE 0),
                       incorrect |-> @.incorrect + (IF ok THEN 0 ELSE 1),
                       score |-> RMul(@.score, IF ok THEN FACTOR_SUCCESS
                                               ELSE FACTOR_FAIL)]]
          IN  /\ IF ok
                 THEN /\ session_stats' = resolved
                      /\ open_entries' = closed
                 ELSE \E b \in ScheduleBatches(closed) :
                        /\ session_stats' = AskedAfter(resolved, b)
                        /\ open_entries' =
                              [i \in 1..Len(questions) |-> closed[i] + b[i]]
              /\ review_log' =
                    Append(review_log, Entry(q, user_ans_conv, correct_kana, ok))
    /\ answered' = answered + 1
    /\ UNCHANGED <<frontend, mode, questions, num_questions, persistent_stats,
                   weights, pc, loaded_stats, draws, sessions, call>>

\* end_session, queued by wait_for_console once Enter is pressed
gui_end_session ==
    /\ frontend = "gui"
    /\ pc = "running"
    /\ persistent_stats' = merge_stats(persistent_stats, session_stats)
    /\ pc' = "ended"
    /\ UNCHANGED <<frontend, mode, questions, num_questions, session_stats,
                   weights, review_log, open_entries, loaded_stats, draws,
                   answered, sessions, call>>

-----------------------------------------------------------------------------

Next ==
    \/ romaji_quiz_start
    \/ romaji_quiz_question
    \/ romaji_main_merge
    \/ romaji_main_restart
    \/ kana_quiz_start
    \/ kana_quiz_question
    \/ kana_main_merge
    \/ kana_main_restart
    \/ gui_init
    \/ gui_run
    \/ gui_schedule_quiz
    \/ gui_check_answer
    \/ gui_end_session

Spec == Init /\ [][Next]_vars

-----------------------------------------------------------------------------
(* Direct calls of get_weight and merge_stats on stores of any content *)

KeyKi == <<107, 105>>
KeyKaki == <<107, 97, 107, 105>>

SampleScores ==
    {RInt(-1), RInt(0), Rat(1, 2), RInt(1), RInt(10), RInt(200), Rat(2001, 10),
     RInt(250)}

WeightRecords ==
    {Stat(asked, correct, incorrect, score, extra) :
        asked \in 0..MaxAsked, correct \in 0..MaxAsked,
        incorrect \in {0, MaxAsked}, score \in SampleScores,
        extra \in {"None", "Known"}}
    \cup {Stat(10, 5, 5, RInt(10), "None")}

FnFrame ==
    /\ frontend = "romaji"
    /\ mode = "romaji"
    /\ questions = BankTwoKeys
    /\ num_questions = 0
    /\ weights = <<>>
    /\ review_log = <<>>
    /\ open_entries = [i \in 1..Len(questions) |-> 0]
    /\ draws = <<>>
    /\ answered = 0
    /\ sessions = 1

InitWeight ==
    /\ FnFrame
    /\ persistent_stats \in StoresOver({KeyKi}, WeightRecords)
    /\ loaded_stats = persistent_stats
    /\ session_stats = <<>>
    /\ \E key \in {KeyKi, KeyKaki}, multiplier \in 0..MaxMultiplier :
          call = [key |-> key, multiplier |-> multiplier, ret |-> RInt(0)]
    /\ pc = "call_get_weight"

ApplyGetWeight ==
    /\ pc = "call_get_weight"
    /\ LET r == get_weight(call.key, persistent_stats, call.multiplier)
       IN  /\ persistent_stats' = r.stats
           /\ call' = [call EXCEPT !.ret = r.weight]
    /\ pc' = "returned"
    /\ UNCHANGED <<frontend, mode, questions, num_questions, session_stats,
                   weights, review_log, open_entries, loaded_stats, draws,
                   answered, sessions>>

SpecWeight == InitWeight /\ [][ApplyGetWeight]_vars

MergeSessionRecords ==
    { NewSessionStat,
      [asked |-> 3, correct |-> 2, incorrect |-> 1, score |-> Rat(121, 100)],
      [asked |-> 1, correct |-> 0, incorrect |-> 1, score |-> RInt(0)],
      [asked |-> 2, correct |-> 2, incorrect |-> 0, score |-> RInt(3)] }

MergePersistentRecords ==
    FileRecords \cup {Stat(0, 0, 0, RInt(10), "None"),
                      Stat(4, 1, 3, Rat(1, 4), "Study")}

InitMerge ==
    /\ FnFrame
    /\ persistent_stats \in StoresOver({KeyKi, KeyKaki}, MergePersistentRecords)
    /\ loaded_stats = persistent_stats
    /\ session_stats \in StoresOver({KeyKi, KeyKaki}, MergeSessionRecords)
    /\ call = NoCall
    /\ pc = "call_merge_stats"

ApplyMergeStats ==
    /\ pc = "call_merge_stats"
    /\ persistent_stats' = merge_stats(persistent_stats, session_stats)
    /\ pc' = "returned"
    /\ UNCHANGED <<frontend, mode, questions, num_questions, session_stats,
                   weights, review_log, open_entries, loaded_stats, draws,
                   answered, sessions, call>>

SpecMerge == InitMerge /\ [][ApplyMergeStats]_vars

-----------------------------------------------------------------------------
(* Direct calls of convert_romaji_to_kana and hide_parenthesis_info: the   *)
(* function is applied to a string and then to its own result, as the kana *)
(* quiz does with an answer completed from the converted candidates.       *)

StringsOver(chars, maxlen) == UNION {[1..n -> chars] : n \in 0..maxlen}

\* a i n t s h k y 9 A K N
RomajiChars == {97, 105, 110, 116, 115, 104, 107, 121, 57, 65, 75, 78}

\* a b space ( )
PromptChars == {97, 98, 32, 40, 41}

StringCall(s) == [key |-> s, multiplier |-> 0, ret |-> <<>>, again |-> <<>>]

StringFrame ==
    /\ FnFrame
    /\ persistent_stats = <<>>
    /\ loaded_stats = <<>>
    /\ session_stats = <<>>

InitConvert ==
    /\ StringFrame
    /\ \E romaji \in StringsOver(RomajiChars, MaxRomajiLen) :
          call = StringCall(romaji)
    /\ pc = "call_convert"

\* kana_text = convert_romaji_to_kana(text)
ApplyConvert ==
    /\ pc = "call_convert"
    /\ call' = [call EXCEPT !.ret = convert_romaji_to_kana(call.key)]
    /\ pc' = "converted"
    /\ UNCHANGED <<frontend, mode, questions, num_questions, persistent_stats,
                   session_stats, weights, review_log, open_entries,
                   loaded_stats, draws, answered, sessions>>

\* user_kana = convert_romaji_to_kana(user_input) on a completed candidate
ApplyConvertAgain ==
    /\ pc = "converted"
    /\ call' = [call EXCEPT !.again = convert_romaji_to_kana(call.ret)]
    /\ pc' = "reconverted"
    /\ UNCHANGED <<frontend, mode, questions, num_questions, persistent_stats,
                   session_stats, weights, review_log, open_entries,
                   loaded_stats, draws, answered, sessions>>

NextConvert == ApplyConvert \/ ApplyConvertAgain

SpecConvert == InitConvert /\ [][NextConvert]_vars

InitHide ==
    /\ StringFrame
    /\ \E prompt \in StringsOver(PromptChars, MaxPromptLen) :
          call = StringCall(prompt)
    /\ pc = "call_hide"

\* visible_prompt = hide_parenthesis_info(prompt)
ApplyHide ==
    /\ pc = "call_hide"
    /\ call' = [call EXCEPT !.ret = hide_parenthesis_info(call.key)]
    /\ pc' = "hidden"
    /\ UNCHANGED <<frontend, mode, questions, num_questions, persistent_stats,
                   session_stats, weights, review_log, open_entries,
                   loaded_stats, draws, answered, sessions>>

\* hide_parenthesis_info on a visible prompt
ApplyHideAgain ==
    /\ pc = "hidden"
    /\ call' = [call EXCEPT !.again = hide_parenthesis_info(call.ret)]
    /\ pc' = "hidden_again"
    /\ UNCHANGED <<frontend, mode, questions, num_questions, persistent_stats,
                   session_stats, weights, review_log, open_entries,
                   loaded_stats, draws, answered, sessions>>

NextHide == ApplyHide \/ ApplyHideAgain

SpecHide == InitHide /\ [][NextHide]_vars

-----------------------------------------------------------------------------
(* Properties *)

IsCli == frontend \in {"romaji", "kana"}

Balanced(r) == r.asked = r.correct + r.incorrect

RECURSIVE SumAsked(_, _)
SumAsked(stats, keys) ==
    IF keys = {} THEN 0
    ELSE LET k == CHOOSE x \in keys : TRUE
         IN  stats[k].asked + SumAsked(stats, keys \ {k})

SessionAsked == SumAsked(session_stats, DOMAIN session_stats)

VisibleKey(i) == hide_parenthesis_info(questions[i].prompt)

\* C1: every session record satisfies asked = correct + incorrect in every
\* state of every front end, and so does every persistent record when the
\* records that were loaded did.
C1_AskedIsCorrectPlusIncorrect ==
    /\ \A k \in DOMAIN session_stats : Balanced(session_stats[k])
    /\ (\A k \in DOMAIN loaded_stats : Balanced(loaded_stats[k]))
          => \A k \in DOMAIN persistent_stats : Balanced(persistent_stats[k])

\* C2: in a CLI session where some question has a positive weight, no draw
\* is a question of weight 0, the session asked count of such a question's
\* visible key stays 0 unless a positive-weight question shares the key, the
\* session asked counts sum to the number of draws, and a finished session
\* has made num_questions draws.
C2_ZeroWeightNeverDrawn ==
    (/\ IsCli
     /\ pc \in {"running", "finished"}
     /\ \E i \in 1..Len(weights) : RLt(RInt(0), weights[i]))
    => /\ \A j \in 1..Len(draws) : RLt(RInt(0), weights[draws[j]])
       /\ \A i \in 1..Len(weights) :
             (/\ weights[i] = RInt(0)
              /\ \A h \in 1..Len(weights) :
                    VisibleKey(h) = VisibleKey(i) => weights[h] = RInt(0))
             => session_stats[VisibleKey(i)].asked = 0
       /\ SessionAsked = Len(draws)
       /\ pc = "finished" => Len(draws) = num_questions

C2_Witness ==
    /\ IsCli
    /\ pc = "finished"
    /\ num_questions >= 2
    /\ Len(draws) = num_questions
    /\ \E i \in 1..Len(weights) : weights[i] = RInt(0)
    /\ \E i \in 1..Len(weights) : RLt(RInt(0), weights[i])

CalledRecordPresent == pc = "returned" /\ call.key \in DOMAIN loaded_stats

\* C3 as claimed: whatever the record's asked and correct counts, a score
\* below 1 gives weight 0 and extra "Study", a score above 200 gives weight
\* 0 and extra "Known", and a score from 1 to 200 leaves extra unwritten.
C3_OverrideForEveryRecord ==
    CalledRecordPresent =>
        LET before == loaded_stats[call.key]
            after == persistent_stats[call.key]
        IN  /\ RLt(before.score, RInt(1))
                  => call.ret = RInt(0) /\ after.extra = "Study"
            /\ RLt(RInt(200), before.score)
                  => call.ret = RInt(0) /\ after.extra = "Known"
            /\ (RLe(RInt(1), before.score) /\ RLe(before.score, RInt(200)))
                  => after.extra = before.extra

\* C3 amended: for a record with asked > 0, a score below 1 gives weight 0
\* and extra "Study" and a score above 200 gives weight 0 and extra "Known";
\* for a record with asked = 0, or a score from 1 to 200, get_weight does not
\* write extra.
C3_OverrideForAskedRecord ==
    CalledRecordPresent =>
        LET before == loaded_stats[call.key]
            after == persistent_stats[call.key]
        IN  /\ (before.asked > 0 /\ RLt(before.score, RInt(1)))
                  => call.ret = RInt(0) /\ after.extra = "Study"
            /\ (before.asked > 0 /\ RLt(RInt(200), before.score))
                  => call.ret = RInt(0) /\ after.extra = "Known"
            /\ (\/ before.asked = 0
                \/ RLe(RInt(1), before.score) /\ RLe(before.score, RInt(200)))
                  => after.extra = before.extra

C3_Witness ==
    /\ CalledRecordPresent
    /\ loaded_stats[call.key].asked > 0
    /\ loaded_stats[call.key].correct = loaded_stats[call.key].asked
    /\ RLt(loaded_stats[call.key].score, RInt(1))
    /\ loaded_stats[call.key].extra = "None"
    /\ persistent_stats[call.key].extra = "Study"
    /\ call.ret = RInt(0)

\* C4: when no score override applies, get_weight returns 1 + 2*m for an
\* absent key or a record with asked = 0, and otherwise
\* 1 + (1 - correct/asked) * m * (1 + 1/(asked+1)), which over the common
\* denominator asked*(asked+1) is
\* (asked*(asked+1) + (asked-correct)*m*(asked+2)) / (asked*(asked+1)).
C4_WeightFormula ==
    pc = "returned" =>
        LET m == call.multiplier
        IN  IF call.key \notin DOMAIN loaded_stats
            THEN call.ret = [n |-> 1 + 2 * m, d |-> 1]
            ELSE LET rec == loaded_stats[call.key]
                     a == rec.asked
                     c == rec.correct
                 IN  (RLe(RInt(1), rec.score) /\ RLe(rec.score, RInt(200))) =>
                        IF a = 0
                        THEN call.ret = [n |-> 1 + 2 * m, d |-> 1]
                        ELSE call.ret.n * (a * (a + 1)) =
                             call.ret.d * (a * (a + 1) + (a - c) * m * (a + 2))

C4_Witness ==
    /\ CalledRecordPresent
    /\ loaded_stats[call.key].asked = 10
    /\ loaded_stats[call.key].correct = 5
    /\ call.multiplier = 4
    /\ call.ret = [n |-> 35, d |-> 11]

\* C5: for records with asked, correct, incorrect >= 0 and any score the
\* weight returned by get_weight is never negative.
C5_WeightNonNegative == pc = "returned" => call.ret.n >= 0

\* C6: after merge_stats, every key of the session store has the prior
\* persistent record (or asked 0, correct 0, incorrect 0, score 10 when the
\* key was absent) with the session counts added and the score multiplied by
\* the session score.
C6_MergeAddsCountsMultipliesScore ==
    pc = "returned" =>
        \A k \in DOMAIN session_stats :
            /\ k \in DOMAIN persistent_stats
            /\ LET present == k \in DOMAIN loaded_stats
                   pa == IF present THEN loaded_stats[k].asked ELSE 0
                   pco == IF present THEN loaded_stats[k].correct ELSE 0
                   pin == IF present THEN loaded_stats[k].incorrect ELSE 0
                   ps == IF present THEN loaded_stats[k].score
                         ELSE [n |-> 10, d |-> 1]
                   s == session_stats[k]
                   merged == persistent_stats[k]
               IN  /\ merged.asked = pa + s.asked
                   /\ merged.correct = pco + s.correct
                   /\ merged.incorrect = pin + s.incorrect
                   /\ merged.score.n * (ps.d * s.score.d) =
                      merged.score.d * (ps.n * s.score.n)

C6_Witness ==
    /\ pc = "returned"
    /\ loaded_stats = <<>>
    /\ KeyKi \in DOMAIN session_stats
    /\ session_stats[KeyKi] =
          [asked |-> 3, correct |-> 2, incorrect |-> 1,
           score |-> [n |-> 121, d |-> 100]]
    /\ persistent_stats[KeyKi].asked = 3
    /\ persistent_stats[KeyKi].correct = 2
    /\ persistent_stats[KeyKi].incorrect = 1
    /\ persistent_stats[KeyKi].score = [n |-> 121, d |-> 10]

IsMergeStep ==
    \/ pc = "finished" /\ pc' = "merged"
    \/ pc = "running" /\ pc' = "ended"

IsWeightStep == pc = "loaded" /\ pc' \in {"running", "finished", "constructed"}

\* C7 as claimed: every step other than the merge leaves every field of every
\* persistent record unchanged.
C7_OnlyMergeMutatesPersistent ==
    [][IsMergeStep \/ persistent_stats' = persistent_stats]_vars

\* C7 amended: every step other than the merge leaves the key set and the
\* asked, correct, incorrect and score of every persistent record unchanged;
\* extra is written only by the weight computation at session start, which
\* sets it to "Study" in a record with asked > 0 and score < 1 and to "Known"
\* in a record with asked > 0 and score > 200.
C7_OnlyMergeMutatesCounts ==
    [][\/ IsMergeStep
       \/ /\ DOMAIN persistent_stats' = DOMAIN persistent_stats
          /\ \A k \in DOMAIN persistent_stats :
                LET before == persistent_stats[k]
                    after == persistent_stats'[k]
                IN  /\ after.asked = before.asked
                    /\ after.correct = before.correct
                    /\ after.incorrect = before.incorrect
                    /\ after.score = before.score
                    /\ after.extra # before.extra =>
                          /\ IsWeightStep
                          /\ before.asked > 0
                          /\ \/ /\ RLt(before.score, RInt(1))
                                /\ after.extra = "Study"
                             \/ /\ RLt(RInt(200), before.score)
                                /\ after.extra = "Known"]_vars

C7_Witness ==
    /\ pc = "running"
    /\ answered >= 1
    /\ \E k \in DOMAIN persistent_stats :
          /\ loaded_stats[k].extra = "None"
          /\ persistent_stats[k].extra = "Study"
          /\ persistent_stats[k].score = loaded_stats[k].score

\* C8: for every bank, store and count the CLI loop finishes after exactly
\* num_questions draws: no draw aborts it, the session asked counts sum to
\* num_questions and the review log has one entry per draw, in draw order.
C8_CliLoopFinishes ==
    IsCli =>
        /\ pc # "aborted"
        /\ pc = "finished" =>
              /\ Len(draws) = num_questions
              /\ SessionAsked = num_questions
              /\ Len(review_log) = num_questions
              /\ \A j \in 1..Len(review_log) :
                    review_log[j].full_prompt = questions[draws[j]].prompt

\* C9: in kana mode an answer is scored correct exactly when its kana
\* conversion is non-empty and a substring of the kana conversion of the
\* correct answer.
C9_KanaSubstringMatch ==
    mode = "kana" =>
        \A j \in 1..Len(review_log) :
            review_log[j].result = "correct" <=>
                /\ review_log[j].user_answer # <<>>
                /\ IsSubstring(review_log[j].user_answer,
                               review_log[j].correct_answer)

\* C10: an answer resolution multiplies the key's session score by 1.1
\* (correct) or 0.5 (wrong) in literal mode and adds 1 (correct) or
\* subtracts 1 (wrong) in phonetic mode, in every front end.
C10_ScoreUpdateByMode ==
    [][\A k \in (DOMAIN session_stats) \cap (DOMAIN session_stats') :
          LET before == session_stats[k]
              after == session_stats'[k]
          IN  /\ after.correct = before.correct + 1 =>
                    after.score = IF mode = "romaji"
                                  THEN RMul(before.score, Rat(11, 10))
                                  ELSE RAdd(before.score, RInt(1))
              /\ after.incorrect = before.incorrect + 1 =>
                    after.score = IF mode = "romaji"
                                  THEN RMul(before.score, Rat(1, 2))
                                  ELSE RSub(before.score, RInt(1))]_vars
\* number of review entries of visible key k with the given result
Resolved(k, result) ==
    Cardinality({j \in 1..Len(review_log) :
                    /\ review_log[j].visible_prompt = k
                    /\ review_log[j].result = result})

\* C11: when the GUI session is ended with questions still open, the merge
\* adds to every key's persistent record exactly its resolved questions: a
\* key with no resolved question keeps its asked, correct, incorrect and
\* score, and every other key gains one asked per resolved question, one
\* correct per correct answer and one incorrect per wrong answer.
C11_AbandonedLeaveNoTrace ==
    (frontend = "gui" /\ pc = "ended") =>
        \A k \in DOMAIN session_stats :
            LET base == IF k \in DOMAIN loaded_stats
                        THEN loaded_stats[k] ELSE NewPersistentStat
                merged == persistent_stats[k]
            IN  /\ merged.asked =
                      base.asked + Resolved(k, "correct") + Resolved(k, "wrong")
                /\ merged.correct = base.correct + Resolved(k, "correct")
                /\ merged.incorrect = base.incorrect + Resolved(k, "wrong")
                /\ (Resolved(k, "correct") + Resolved(k, "wrong") = 0)
                      => merged.score = base.score
LowercaseInput(s) == \A i \in 1..Len(s) : ~IsUpperChar(s[i])

\* the longest table key that matches s at position i, <<>> if none does
LongestKeyAt(s, i) ==
    LET matching == {p \in RomajiPairs : StartsWith(s, p[1], i)}
    IN  IF matching = {} THEN <<>>
        ELSE (CHOOSE p \in matching :
                 \A o \in matching : Len(o[1]) <= Len(p[1]))[1]

KanaOfKey(key) == (CHOOSE p \in RomajiPairs : p[1] = key)[2]

\* the left-to-right reference scan: small tsu for a doubled character that
\* is none of a e i o u n, else the kana of the longest key, else the
\* character itself
RECURSIVE ReferenceScan(_, _)
ReferenceScan(s, i) ==
    IF i > Len(s) THEN <<>>
    ELSE IF /\ i < Len(s)
            /\ s[i] = s[i + 1]
            /\ s[i] \notin {97, 101, 105, 111, 117, 110}
         THEN <<12387>> \o ReferenceScan(s, i + 1)
    ELSE LET key == LongestKeyAt(s, i)
         IN  IF key # <<>>
             THEN KanaOfKey(key) \o ReferenceScan(s, i + Len(key))
             ELSE <<s[i]>> \o ReferenceScan(s, i + 1)

\* C12: for every lowercase input, convert_romaji_to_kana returns the
\* reference scan of the input (small tsu for a doubled non-vowel, non-n
\* character, else the kana of the longest key matching at the position,
\* else the character itself); convert("") = "", convert("tta") = small tsu
\* + ta, convert("shi") = shi, convert("k9") = "k9", and an input that starts
\* with a 3-letter key (and no doubled character) has an output that starts
\* with that key's kana.
C12_ConvertIsReferenceScan ==
    (pc = "converted" /\ LowercaseInput(call.key)) =>
        /\ call.ret = ReferenceScan(call.key, 1)
        /\ call.key = <<>> => call.ret = <<>>
        /\ call.key = <<116, 116, 97>> => call.ret = <<12387, 12383>>
        /\ call.key = <<115, 104, 105>> => call.ret = <<12375>>
        /\ call.key = <<107, 57>> => call.ret = <<107, 57>>
        /\ (/\ Len(call.key) >= 3
            /\ call.key[1] # call.key[2]
            /\ \E p \in RomajiPairs : p[1] = SubSeq(call.key, 1, 3))
              => LET kana == KanaOfKey(SubSeq(call.key, 1, 3))
                 IN  /\ Len(call.ret) >= Len(kana)
                     /\ SubSeq(call.ret, 1, Len(kana)) = kana

\* "nya": the 3-letter key wins over the 1-letter key "n"
C12_Witness ==
    /\ pc = "converted"
    /\ call.key = <<110, 121, 97>>
    /\ call.ret = <<12395, 12419>>
\* str.isupper() on a non-empty string: some cased character, none lowercase
EntirelyUppercase(s) ==
    /\ s # <<>>
    /\ \E i \in 1..Len(s) : IsUpperChar(s[i])
    /\ \A i \in 1..Len(s) : ~IsLowerChar(s[i])

\* U+30A1..U+30F3
IsKatakana(c) == 12449 <= c /\ c <= 12531

\* C13: for a non-empty input that is entirely uppercase (it has a cased
\* character and no lowercase one) the output is the hiragana conversion of
\* the lowercased input with every character of U+3041..U+3093 moved up by
\* 0x60 and every other character unchanged; for every other input the
\* output is the hiragana conversion of the lowercased input and holds no
\* katakana.
C13_ScriptSelection ==
    pc = "converted" =>
        LET hiragana == ReferenceScan(Lower(call.key), 1)
        IN  /\ Len(call.ret) = Len(hiragana)
            /\ IF EntirelyUppercase(call.key)
               THEN \A i \in 1..Len(hiragana) :
                       call.ret[i] = IF 12353 <= hiragana[i] /\ hiragana[i] <= 12435
                                     THEN hiragana[i] + 96 ELSE hiragana[i]
               ELSE /\ call.ret = hiragana
                    /\ \A i \in 1..Len(call.ret) : ~IsKatakana(call.ret[i])

\* "N9" gives katakana n (U+30F3, the last character of the range) and "9"
C13_Witness ==
    /\ pc = "converted"
    /\ call.key = <<78, 57>>
    /\ call.ret = <<12531, 57>>
\* C14: hide_parenthesis_info is idempotent: for every input string, with
\* nested, unbalanced or adjacent parentheses and spaces around them,
\* applying it to its own result returns that result.
C14_HideIdempotent ==
    pc = "hidden_again" => call.again = call.ret

\* "((a))": the match ends at the first ")" and the second one stays
C14_Witness ==
    /\ pc = "hidden_again"
    /\ call.key = <<40, 40, 97, 41, 41>>
    /\ call.ret = <<41>>
    /\ call.again = <<41>>
\* a record that get_weight excludes from the draw
Excluded(r) ==
    r.asked > 0 /\ (RLt(r.score, RInt(1)) \/ RLt(RInt(200), r.score))

\* C15: in a CLI session that computed its weights from a store in which a
\* record has asked > 0 and score < 1 or score > 200, and in which some
\* question has a positive weight, no question of that visible key is drawn,
\* the key's session record stays asked 0, correct 0, incorrect 0, score 1,
\* and after the merge the persistent record has the asked, correct,
\* incorrect and score it was loaded with, so it is excluded again in the
\* next session.
C15_ExclusionAbsorbing ==
    (/\ IsCli
     /\ pc \in {"running", "finished", "merged"}
     /\ \E i \in 1..Len(weights) : RLt(RInt(0), weights[i]))
    => \A k \in DOMAIN loaded_stats :
          Excluded(loaded_stats[k]) =>
             /\ \A j \in 1..Len(draws) : VisibleKey(draws[j]) # k
             /\ session_stats[k] =
                   [asked |-> 0, correct |-> 0, incorrect |-> 0,
                    score |-> [n |-> 1, d |-> 1]]
             /\ persistent_stats[k].asked = loaded_stats[k].asked
             /\ persistent_stats[k].correct = loaded_stats[k].correct
             /\ persistent_stats[k].incorrect = loaded_stats[k].incorrect
             /\ persistent_stats[k].score = loaded_stats[k].score
             /\ Excluded(persistent_stats[k])

\* the second run of the kana quiz, merged after two draws, on a store whose
\* record was excluded by the merge of the first run (score 0)
C15_Witness ==
    /\ frontend = "kana"
    /\ sessions = 2
    /\ pc = "merged"
    /\ Len(draws) = 2
    /\ \E k \in DOMAIN loaded_stats :
          /\ loaded_stats[k].asked > 0
          /\ loaded_stats[k].score = RInt(0)
          /\ persistent_stats[k].score = RInt(0)
          /\ persistent_stats[k].asked = loaded_stats[k].asked
          /\ persistent_stats[k].extra = "Study"
\* C16: converting a converted string again changes nothing: for every
\* romaji string s, convert_romaji_to_kana(convert_romaji_to_kana(s)) =
\* convert_romaji_to_kana(s), so a completed kana candidate that is converted
\* again equals the converted answer it was built from.
C16_ReconvertIsNoOp ==
    pc = "reconverted" => call.again = call.ret
\* C17: in the CLI kana quiz, after every completed question and at the end
\* of the session, the session score of every key is the integer
\* 1 + correct - incorrect (zero or negative when the wrong answers reach or
\* exceed the correct ones plus one), and the merge that follows multiplies
\* the key's persistent score (10 for a new key) by that integer.
C17_KanaScoreIsOnePlusBalance ==
    (frontend = "kana" /\ pc \in {"running", "finished", "merged"}) =>
        \A k \in DOMAIN session_stats :
            LET s == session_stats[k]
                balance == 1 + s.correct - s.incorrect
                base == IF k \in DOMAIN loaded_stats
                        THEN loaded_stats[k].score ELSE [n |-> 10, d |-> 1]
                merged == persistent_stats[k].score
            IN  /\ s.score = [n |-> balance, d |-> 1]
                /\ pc = "merged" =>
                      merged.n * base.d = merged.d * (base.n * balance)

\* two wrong answers on one key: session score -1, persistent score negated
C17_Witness ==
    /\ frontend = "kana"
    /\ pc = "merged"
    /\ \E k \in DOMAIN session_stats :
          /\ session_stats[k].correct = 0
          /\ session_stats[k].incorrect = 2
          /\ session_stats[k].score = [n |-> -1, d |-> 1]
          /\ k \in DOMAIN loaded_stats
          /\ loaded_stats[k].score = [n |-> 10, d |-> 1]
          /\ persistent_stats[k].score = [n |-> -10, d |-> 1]

====
